---- MODULE Spec2Model ----
(***************************************************************************)
(* A model of the dialogue backend (src/index.js): five HTTP handlers over *)
(* a document store (the Dialogue collection) and a read-only cloud        *)
(* folder.  Every handler is cut at its awaits: one action per stretch of  *)
(* code that runs without yielding, so that the steps of concurrent        *)
(* requests interleave exactly where Node lets them.                       *)
(***************************************************************************)
EXTENDS Integers, Sequences, FiniteSets, TLC

\* Number of requests the server handles in one run.
NReq == 2

Req == 1..NReq
\* Dialogue numbers a request may name.
Nums == {1, 2}

\* A field that is absent (JavaScript undefined).
Undef == "<undefined>"

\* JavaScript truthiness of an optional string: undefined and "" are falsy.
Truthy(s) == s # Undef /\ s # ""

\* a || b
OrElse(a, b) == IF Truthy(a) THEN a ELSE b

\* `Dialogue ${num}`
Label(n) == "Dialogue " \o ToString(n)

\* The value Date.now supplies; the wall clock is abstracted to one token.
DateNow == "<now>"

(***************************************************************************)
(* Highlights.  A client-supplied highlight is an object whose fields may  *)
(* be absent; the schema's subdocument fills in a missing date.            *)
(***************************************************************************)
hNew == [russian |-> "privet", translation |-> "hi",
         fullSentence |-> "privet, kak dela", translatedWord |-> "hi",
         date |-> Undef]
hOld == [russian |-> "poka", translation |-> "bye",
         fullSentence |-> Undef, translatedWord |-> Undef, date |-> Undef]
hDated == [russian |-> "da", translation |-> "yes",
           fullSentence |-> "da, konechno", translatedWord |-> Undef,
           date |-> "2024-01-01"]

\* Request bodies of POST /api/dialogues/:number/highlights.
Bodies == { <<>>, <<hNew>>, <<hOld, hDated>> }

\* The highlights subdocument schema: date defaults to Date.now.
CastHighlight(h) ==
    [russian |-> h.russian, translation |-> h.translation,
     fullSentence |-> h.fullSentence, translatedWord |-> h.translatedWord,
     date |-> IF h.date = Undef THEN DateNow ELSE h.date]

\* Assigning an array to doc.highlights casts every element.
CastHighlights(L) == [i \in DOMAIN L |-> CastHighlight(L[i])]

(***************************************************************************)
(* The cloud folder.  A file name is kept in the three parts the handlers' *)
(* patterns look at: the text before the digits, the digits, and the rest  *)
(* as a sequence of tokens ("." is a token of its own).                    *)
(***************************************************************************)
File(id, stem, digits, rest, content) ==
    [id |-> id, name |-> [stem |-> stem, digits |-> digits, rest |-> rest],
     content |-> content]

\* The i flag of the patterns.
Lower(tok) ==
    CASE tok = "AUDIO" -> "audio"
      [] tok = "TRANSCRIPT" -> "transcript"
      [] tok = "TXT" -> "txt"
      [] tok = "WAV" -> "wav"
      [] OTHER -> tok

LowerAll(toks) == [i \in DOMAIN toks |-> Lower(toks[i])]

\* parseInt of a string of decimal digits.
RECURSIVE ParseInt(_)
ParseInt(ds) ==
    IF ds = <<>> THEN 0
    ELSE 10 * ParseInt(SubSeq(ds, 1, Len(ds) - 1)) + ds[Len(ds)]

\* The decimal digits of a number, as template interpolation writes them.
RECURSIVE Digits(_)
Digits(n) == IF n < 10 THEN <<n>> ELSE Append(Digits(n \div 10), n % 10)

\* /^audio(\d+)\./ without the i flag.
AudioMatchCaseSensitive(name) ==
    /\ name.stem = "audio"
    /\ name.digits # <<>>
    /\ name.rest # <<>>
    /\ name.rest[1] = "."

\* /^audio(\d+)\./i
AudioMatch(name) ==
    /\ Lower(name.stem) = "audio"
    /\ name.digits # <<>>
    /\ name.rest # <<>>
    /\ name.rest[1] = "."

\* /^transcript(\d+)\.txt$/i
TextMatch(name) ==
    /\ Lower(name.stem) = "transcript"
    /\ name.digits # <<>>
    /\ LowerAll(name.rest) = <<".", "txt">>

\* `transcript${num}.txt`
TranscriptName(n) ==
    [stem |-> "transcript", digits |-> Digits(n), rest |-> <<".", "txt">>]

\* Two folders the server may be pointed at.  In FolderA number 1 has an
\* audio file and a transcript and number 2 an upper-case audio file; in
\* FolderB number 1 has an empty transcript and an audio file written with
\* a leading zero, and number 2 has nothing.
FolderA == << File("a1", "audio", <<1>>, <<".", "mp3">>, "AUDIO-ONE"),
              File("t1", "transcript", <<1>>, <<".", "txt">>, "privet, kak dela"),
              File("a2", "AUDIO", <<2>>, <<".", "WAV">>, "AUDIO-TWO"),
              File("n", "notes", <<>>, <<".", "txt">>, "todo"),
              File("b1", "transcript", <<1>>, <<".", "txt", ".", "bak">>, "old") >>
FolderB == << File("t1e", "transcript", <<1>>, <<".", "txt">>, ""),
              File("a01", "audio", <<0, 1>>, <<".", "mp3">>, "AUDIO-ONE-B"),
              File("x2", "audio", <<2>>, <<"_old", ".", "mp3">>, "junk") >>

Folders == { FolderA, FolderB }

\* File ids a client may ask GET /api/audio/:fileId for.
AudioIds == { "a1", "nope" }

(***************************************************************************)
(* The Dialogue collection: the records in insertion order (the order a    *)
(* find without a sort returns them in).                                   *)
(***************************************************************************)
Null == "<null>"

Record(n, title, text, hl) ==
    [number |-> n, title |-> title, transcriptText |-> text, highlights |-> hl]

\* Stores left by earlier runs of the server or by the database's owner.
Store0 == <<>>
Store1 == << Record(2, "Intro", "zdravstvuyte", <<CastHighlight(hNew), CastHighlight(hOld)>>),
             Record(1, Undef, Undef, <<CastHighlight(hOld)>>) >>

InitStores == { Store0, Store1 }

\* Dialogue.findOne({ number }): the loaded document (none: <<>>), with what
\* the document object remembers: whether it is new and which paths were set.
FindOne(st, n) ==
    LET hits == SelectSeq(st, LAMBDA d : d.number = n)
    IN  IF hits = <<>> THEN <<>>
        ELSE << [rec |-> Head(hits), isNew |-> FALSE, mod |-> {}] >>

\* new Dialogue({ number: num, title: `Dialogue ${num}` })
NewDialogue(n) ==
    [rec |-> Record(n, Label(n), Undef, <<>>), isNew |-> TRUE, mod |-> {}]

\* if (!doc) doc = new Dialogue(...)
LoadOrCreate(d, n) == IF d = <<>> THEN NewDialogue(n) ELSE d[1]

\* doc.transcriptText = textContent
SetTranscript(d, text) ==
    [d EXCEPT !.rec.transcriptText = text, !.mod = @ \cup {"transcriptText"}]

\* An assignment that appends the body to the highlights already there.
SetHighlightsAppend(d, body) ==
    [d EXCEPT !.rec.highlights = @ \o CastHighlights(body), !.mod = @ \cup {"highlights"}]

\* doc.highlights = req.body
SetHighlights(d, body) ==
    [d EXCEPT !.rec.highlights = CastHighlights(body), !.mod = @ \cup {"highlights"}]

\* An insert without the unique index on number.
InsertNoIndex(st, rec) == [ok |-> TRUE, store |-> Append(st, rec)]

\* An insert under the unique index on number (unique: true).
Insert(st, rec) ==
    IF \E i \in DOMAIN st : st[i].number = rec.number
    THEN [ok |-> FALSE, store |-> st]
    ELSE [ok |-> TRUE, store |-> Append(st, rec)]

\* An update that writes the whole loaded document back.
UpdateWhole(old, d) == d.rec

\* The update save() sends for a loaded document: $set of the paths that
\* were assigned, the other fields of the stored record left as they are.
Update(old, d) ==
    Record(old.number, old.title,
           IF "transcriptText" \in d.mod THEN d.rec.transcriptText ELSE old.transcriptText,
           IF "highlights" \in d.mod THEN d.rec.highlights ELSE old.highlights)

\* doc.save(): an insert for a new document, an update for a loaded one.
Save(st, d) ==
    IF d.isNew THEN Insert(st, d.rec)
    ELSE [ok |-> TRUE,
          store |-> [i \in DOMAIN st |->
                        IF st[i].number = d.rec.number THEN Update(st[i], d) ELSE st[i]]]

(***************************************************************************)
(* Responses.  One record shape for all endpoints; a field an endpoint     *)
(* does not send keeps its empty value.                                    *)
(***************************************************************************)
NoResp ==
    [status |-> 0, error |-> "", text |-> "", transcript |-> "",
     highlights |-> <<>>, dialogues |-> <<>>, all |-> <<>>, success |-> FALSE]

\* res.status(500).json({ error: error.message })
ErrorJson(msg) == [NoResp EXCEPT !.status = 500, !.error = msg]

\* res.status(500).send(text)
ErrorText(txt) == [NoResp EXCEPT !.status = 500, !.text = txt]

\* Messages of the errors the collaborators raise.
MsgCreds == "credentials: invalid JSON"
MsgStorage == "storage: request failed"
MsgDb == "database: operation failed"
MsgDup == "E11000 duplicate key error"
MsgNull == "Cannot read properties of null"

\* A response built with doc.transcriptText instead of doc?.transcriptText.
GetResponseNoGuard(d) ==
    IF d = <<>> THEN ErrorJson(MsgNull)
    ELSE [NoResp EXCEPT !.status = 200,
                        !.transcript = OrElse(d[1].rec.transcriptText, ""),
                        !.highlights = d[1].rec.highlights]

\* res.json({ transcript: doc?.transcriptText || "", highlights: doc?.highlights || [] })
GetResponse(d) ==
    IF d = <<>> THEN [NoResp EXCEPT !.status = 200]
    ELSE [NoResp EXCEPT !.status = 200,
                        !.transcript = OrElse(d[1].rec.transcriptText, ""),
                        !.highlights = d[1].rec.highlights]

\* res.json({ success: true })
PostResponse == [NoResp EXCEPT !.status = 200, !.success = TRUE]

(***************************************************************************)
(* GET /api/dialogues: the merge of the folder listing with the records.   *)
(***************************************************************************)
\* if (!dialogues[num]) dialogues[num] = { number: num }; dialogues[num][field] = id
Put(dialogues, num, field, id) ==
    LET base == IF num \in DOMAIN dialogues THEN dialogues[num]
                ELSE [number |-> num, audioId |-> Undef, transcriptId |-> Undef]
    IN  [k \in DOMAIN dialogues \cup {num} |->
            IF k = num THEN [base EXCEPT ![field] = id] ELSE dialogues[k]]

\* driveRes.data.files.forEach(file => ...)
RECURSIVE ScanFiles(_, _)
ScanFiles(files, dialogues) ==
    IF files = <<>> THEN dialogues
    ELSE LET file == Head(files)
             num == ParseInt(file.name.digits)
             d1 == IF AudioMatch(file.name) THEN Put(dialogues, num, "audioId", file.id)
                   ELSE dialogues
             d2 == IF TextMatch(file.name) THEN Put(d1, num, "transcriptId", file.id)
                   ELSE d1
         IN  ScanFiles(Tail(files), d2)

\* The numbers of a set in ascending order.
RECURSIVE Ascending(_)
Ascending(S) ==
    IF S = {} THEN <<>>
    ELSE LET m == CHOOSE x \in S : \A y \in S : x <= y
         IN  <<m>> \o Ascending(S \ {m})

\* An entry whose label is always the synthesized one.
EntrySynth(d, dbDialogues) ==
    LET dbEntry == FindOne(dbDialogues, d.number)
    IN  [number |-> d.number, label |-> Label(d.number),
         audioId |-> d.audioId, transcriptId |-> d.transcriptId,
         hasHighlights |-> dbEntry # <<>> /\ Len(dbEntry[1].rec.highlights) > 0]

\* The object the map callback returns for one discovered number.
Entry(d, dbDialogues) ==
    LET dbEntry == FindOne(dbDialogues, d.number)
    IN  [number |-> d.number,
         label |-> IF dbEntry = <<>> THEN Label(d.number)
                   ELSE OrElse(dbEntry[1].rec.title, Label(d.number)),
         audioId |-> d.audioId, transcriptId |-> d.transcriptId,
         hasHighlights |-> dbEntry # <<>> /\ Len(dbEntry[1].rec.highlights) > 0]

\* Object.values(dialogues).map(...).sort((a, b) => a.number - b.number)
ListResult(files, dbDialogues) ==
    LET dialogues == ScanFiles(files, <<>>)
        order == Ascending(DOMAIN dialogues)
    IN  [i \in DOMAIN order |-> Entry(dialogues[order[i]], dbDialogues)]

(***************************************************************************)
(* GET /api/all-highlights.                                                *)
(***************************************************************************)
\* Dialogue.find({ 'highlights.0': { $exists: true } })
WithHighlights(st) == SelectSeq(st, LAMBDA d : Len(d.highlights) > 0)

\* The entries one record contributes.
TagAll(d) ==
    [i \in DOMAIN d.highlights |->
        LET h == d.highlights[i]
        IN  [russian |-> h.russian, translation |-> h.translation,
             fullSentence |-> OrElse(h.fullSentence, h.russian),
             translatedWord |-> OrElse(h.translatedWord, Null),
             dialogueNumber |-> d.number]]

\* A flattening that keeps only the first highlight of each record.
RECURSIVE FlattenFirstOnly(_)
FlattenFirstOnly(ds) ==
    IF ds = <<>> THEN <<>>
    ELSE SubSeq(TagAll(Head(ds)), 1, 1) \o FlattenFirstOnly(Tail(ds))

\* dialogues.forEach(d => d.highlights.forEach(h => allHighlights.push(...)))
RECURSIVE Flatten(_)
Flatten(ds) ==
    IF ds = <<>> THEN <<>>
    ELSE TagAll(Head(ds)) \o Flatten(Tail(ds))

(***************************************************************************)
(* The server.                                                             *)
(***************************************************************************)
VARIABLES
    credsOk,   \* whether GOOGLE_CREDENTIALS parses (fixed for the process)
    folder,    \* the files of the cloud folder, in listing order
    store,     \* the Dialogue collection
    crashed,   \* the process died of an uncaught error
    pc,        \* where each request's handler stands
    req,       \* each request: kind, number, body, file id
    doc,       \* each handler's local doc (<<>>: null)
    files,     \* each handler's listing result
    err,       \* the message of the error each handler caught ("": none)
    resp,      \* the response each request got
    dl,        \* how many downloadDriveText calls each request made
    before     \* the requests that were answered when each request arrived

vars == <<credsOk, folder, store, crashed, pc, req, doc, files, err, resp, dl, before>>

NoReq == [kind |-> "none", num |-> 0, body |-> <<>>, fileId |-> ""]

Requests ==
    [kind : {"get"}, num : Nums, body : {<<>>}, fileId : {""}]
      \cup [kind : {"post"}, num : Nums, body : Bodies, fileId : {""}]
      \cup [kind : {"list", "all"}, num : {0}, body : {<<>>}, fileId : {""}]
      \cup [kind : {"audio"}, num : {0}, body : {<<>>}, fileId : AudioIds]

Init ==
    /\ credsOk \in BOOLEAN
    /\ folder \in Folders
    /\ store \in InitStores
    /\ crashed = FALSE
    /\ pc = [r \in Req |-> "idle"]
    /\ req = [r \in Req |-> NoReq]
    /\ doc = [r \in Req |-> <<>>]
    /\ files = [r \in Req |-> <<>>]
    /\ err = [r \in Req |-> ""]
    /\ resp = [r \in Req |-> NoResp]
    /\ dl = [r \in Req |-> 0]
    /\ before = [r \in Req |-> {}]

\* The first step of each handler.
Entry0(kind) ==
    CASE kind = "get" -> "find"
      [] kind = "post" -> "find"
      [] kind = "list" -> "drive"
      [] kind = "all" -> "all"
      [] kind = "audio" -> "audio"

\* The handler ends with the response rsp, having caught the error msg
\* ("": none); its locals go out of scope.
Finish(r, rsp, msg) ==
    /\ resp' = [resp EXCEPT ![r] = rsp]
    /\ err' = [err EXCEPT ![r] = msg]
    /\ pc' = [pc EXCEPT ![r] = "done"]
    /\ doc' = [doc EXCEPT ![r] = <<>>]
    /\ files' = [files EXCEPT ![r] = <<>>]

\* The handler awaits its next call with locals d and fs.
Await(r, step, d, fs) ==
    /\ pc' = [pc EXCEPT ![r] = step]
    /\ doc' = [doc EXCEPT ![r] = d]
    /\ files' = [files EXCEPT ![r] = fs]
    /\ UNCHANGED <<resp, err>>

\* A catch that hides the error's message.
CatchJsonGeneric(r, msg) == Finish(r, ErrorJson("Internal Server Error"), msg)

\* catch (error) { res.status(500).json({ error: error.message }) }
CatchJson(r, msg) == Finish(r, ErrorJson(msg), msg)

\* A request arrives.  Requests take the slots in order.
Start(r) ==
    /\ ~crashed
    /\ pc[r] = "idle"
    /\ \A q \in Req : q < r => pc[q] # "idle"
    /\ \E q \in Requests :
          /\ req' = [req EXCEPT ![r] = q]
          /\ pc' = [pc EXCEPT ![r] = Entry0(q.kind)]
    /\ before' = [before EXCEPT ![r] = {q \in Req : pc[q] = "done"}]
    /\ UNCHANGED <<credsOk, folder, store, crashed, doc, files, err, resp, dl>>

(***************************************************************************)
(* B. GET /api/dialogues/:number                                           *)
(***************************************************************************)
\* findOne resolves; a cached transcript is answered at once, otherwise
\* getAuth runs and the listing is requested.
GetFind(r) ==
    /\ ~crashed
    /\ pc[r] = "find" /\ req[r].kind = "get"
    /\ \/ CatchJson(r, MsgDb)
       \/ LET d == FindOne(store, req[r].num) IN
          IF d # <<>> /\ Truthy(d[1].rec.transcriptText)
          THEN Finish(r, GetResponse(d), "")
          ELSE IF ~credsOk
               THEN CatchJson(r, MsgCreds)
               ELSE Await(r, "list", d, <<>>)
    /\ UNCHANGED <<credsOk, folder, store, crashed, req, dl, before>>

\* The listing for `transcript${num}.txt` resolves.
GetList(r) ==
    /\ ~crashed
    /\ pc[r] = "list"
    /\ \/ CatchJson(r, MsgStorage)
       \/ LET hits == SelectSeq(folder, LAMBDA f : f.name = TranscriptName(req[r].num)) IN
          IF Len(hits) > 0
          THEN Await(r, "download", doc[r], hits)
          ELSE Finish(r, GetResponse(doc[r]), "")
    /\ UNCHANGED <<credsOk, folder, store, crashed, req, dl, before>>

\* downloadDriveText(txtId) resolves; the text is put on the document and
\* the save is requested.
GetDownload(r) ==
    /\ ~crashed
    /\ pc[r] = "download"
    /\ dl' = [dl EXCEPT ![r] = @ + 1]
    /\ \/ CatchJson(r, MsgStorage)
       \/ Await(r, "save",
                << SetTranscript(LoadOrCreate(doc[r], req[r].num), files[r][1].content) >>,
                <<>>)
    /\ UNCHANGED <<credsOk, folder, store, crashed, req, before>>

\* doc.save() resolves and the response is sent.
GetSave(r) ==
    /\ ~crashed
    /\ pc[r] = "save" /\ req[r].kind = "get"
    /\ \/ /\ CatchJson(r, MsgDb)
          /\ UNCHANGED store
       \/ LET s == Save(store, doc[r][1]) IN
          IF s.ok
          THEN /\ store' = s.store
               /\ Finish(r, GetResponse(doc[r]), "")
          ELSE /\ CatchJson(r, MsgDup)
               /\ UNCHANGED store
    /\ UNCHANGED <<credsOk, folder, crashed, req, dl, before>>

(***************************************************************************)
(* C. POST /api/dialogues/:number/highlights                               *)
(***************************************************************************)
\* findOne resolves; the document is created if there is none, the body is
\* assigned to its highlights and the save is requested.
PostFind(r) ==
    /\ ~crashed
    /\ pc[r] = "find" /\ req[r].kind = "post"
    /\ \/ CatchJson(r, MsgDb)
       \/ Await(r, "save",
                << SetHighlights(LoadOrCreate(FindOne(store, req[r].num), req[r].num),
                                 req[r].body) >>,
                <<>>)
    /\ UNCHANGED <<credsOk, folder, store, crashed, req, dl, before>>

\* doc.save() resolves and the acknowledgment is sent.
PostSave(r) ==
    /\ ~crashed
    /\ pc[r] = "save" /\ req[r].kind = "post"
    /\ \/ /\ CatchJson(r, MsgDb)
          /\ UNCHANGED store
       \/ LET s == Save(store, doc[r][1]) IN
          IF s.ok
          THEN /\ store' = s.store
               /\ Finish(r, PostResponse, "")
          ELSE /\ CatchJson(r, MsgDup)
               /\ UNCHANGED store
    /\ UNCHANGED <<credsOk, folder, crashed, req, dl, before>>

(***************************************************************************)
(* A. GET /api/dialogues                                                   *)
(***************************************************************************)
\* getAuth runs and the folder listing resolves.
ListDrive(r) ==
    /\ ~crashed
    /\ pc[r] = "drive"
    /\ IF ~credsOk
       THEN CatchJson(r, MsgCreds)
       ELSE \/ CatchJson(r, MsgStorage)
            \/ Await(r, "dbfind", <<>>, folder)
    /\ UNCHANGED <<credsOk, folder, store, crashed, req, dl, before>>

\* Dialogue.find() resolves; the merged list is sent.
ListFind(r) ==
    /\ ~crashed
    /\ pc[r] = "dbfind"
    /\ \/ CatchJson(r, MsgDb)
       \/ Finish(r, [NoResp EXCEPT !.status = 200,
                                   !.dialogues = ListResult(files[r], store)], "")
    /\ UNCHANGED <<credsOk, folder, store, crashed, req, dl, before>>

(***************************************************************************)
(* D. GET /api/all-highlights                                              *)
(***************************************************************************)
\* catch (err) { res.status(500).json({ error: 'Failed to fetch highlights' }) }
AllHighlights(r) ==
    /\ ~crashed
    /\ pc[r] = "all"
    /\ \/ Finish(r, ErrorJson("Failed to fetch highlights"), MsgDb)
       \/ Finish(r, [NoResp EXCEPT !.status = 200,
                                   !.all = Flatten(WithHighlights(store))], "")
    /\ UNCHANGED <<credsOk, folder, store, crashed, req, dl, before>>

(***************************************************************************)
(* E. GET /api/audio/:fileId                                               *)
(***************************************************************************)
\* getAuth runs and files.get resolves with the stream, which is piped to
\* the response (a file id the folder does not hold is a storage error);
\* catch (error) { res.status(500).send('Audio Error') }.
AudioGet(r) ==
    /\ ~crashed
    /\ pc[r] = "audio"
    /\ LET hits == SelectSeq(folder, LAMBDA f : f.id = req[r].fileId) IN
       IF ~credsOk
       THEN Finish(r, ErrorText("Audio Error"), MsgCreds)
       ELSE \/ Finish(r, ErrorText("Audio Error"), MsgStorage)
            \/ /\ hits # <<>>
               /\ Await(r, "stream", <<>>, hits)
    /\ UNCHANGED <<credsOk, folder, store, crashed, req, dl, before>>

\* The piped stream ends, or emits an error: the source stream has no
\* error listener and the handler's try block is long over, so the error
\* is uncaught and ends the process.
AudioStream(r) ==
    /\ ~crashed
    /\ pc[r] = "stream"
    /\ \/ /\ Finish(r, [NoResp EXCEPT !.status = 200, !.text = files[r][1].content], "")
          /\ UNCHANGED crashed
       \/ /\ err' = [err EXCEPT ![r] = MsgStorage]
          /\ crashed' = TRUE
          /\ UNCHANGED <<pc, resp, doc, files>>
    /\ UNCHANGED <<credsOk, folder, store, req, dl, before>>

Next ==
    \E r \in Req :
        \/ Start(r)
        \/ GetFind(r) \/ GetList(r) \/ GetDownload(r) \/ GetSave(r)
        \/ PostFind(r) \/ PostSave(r)
        \/ ListDrive(r) \/ ListFind(r)
        \/ AllHighlights(r)
        \/ AudioGet(r) \/ AudioStream(r)

Spec == Init /\ [][Next]_vars

(***************************************************************************)
(* Vocabulary of the properties.                                           *)
(***************************************************************************)
Done(r) == pc[r] = "done"
Ok(r) == Done(r) /\ resp[r].status = 200
IsGet(r) == req[r].kind = "get"
IsPost(r) == req[r].kind = "post"

\* Request r takes a step.
Steps(r) == pc'[r] # pc[r] /\ pc[r] # "idle"

\* The folder holds a file named transcript<n>.txt.
HasTranscriptFile(n) == \E i \in DOMAIN folder : folder[i].name = TranscriptName(n)

\* The store holds a record numbered n.
HasRecord(n) == \E i \in DOMAIN store : store[i].number = n

\* Requests p and q ran one after the other, p first.
Precedes(p, q) == p \in before[q]

\* Requests p and q overlapped.
Overlap(p, q) == p # q /\ pc[p] # "idle" /\ pc[q] # "idle" /\ ~Precedes(p, q) /\ ~Precedes(q, p)

\* The names the folder convention gives dialogue N's files: audio<N>.<ext>
\* and transcript<N>.txt, in either case.
IsAudioName(name) ==
    /\ name.stem \in {"audio", "AUDIO"}
    /\ name.digits # <<>>
    /\ Len(name.rest) >= 2 /\ name.rest[1] = "."
IsTranscriptName(name) ==
    /\ name.stem \in {"transcript", "TRANSCRIPT"}
    /\ name.digits # <<>>
    /\ name.rest \in { <<".", "txt">>, <<".", "TXT">> }

\* The numbers N that appear in a listing.
ListedNums(fs) ==
    { ParseInt(fs[i].name.digits) :
        i \in { j \in DOMAIN fs : IsAudioName(fs[j].name) \/ IsTranscriptName(fs[j].name) } }

\* The entries of a list response that are about number n.
EntriesOf(ds, n) == { i \in DOMAIN ds : ds[i].number = n }

\* How many highlights the first k records of a store hold.
RECURSIVE SumLens(_, _)
SumLens(st, k) == IF k = 0 THEN 0 ELSE SumLens(st, k - 1) + Len(st[k].highlights)

(***************************************************************************)
(* C1.  Two GET /api/dialogues/N requests issued one after the other, for  *)
(* a number whose transcript was not cached and whose file the folder      *)
(* holds, make one download in total: the first downloads and persists,    *)
(* the second downloads nothing and returns the same text.                 *)
(***************************************************************************)
C1_OneDownload ==
    \A g1 \in Req : \A g2 \in Req :
        ( /\ IsGet(g1) /\ IsGet(g2) /\ req[g1].num = req[g2].num
          /\ Ok(g1) /\ Ok(g2) /\ Precedes(g1, g2)
          /\ dl[g1] = 1 )
        => /\ dl[g2] = 0
           /\ resp[g2].transcript = resp[g1].transcript

\* The property of C1 restricted to transcript files that are not empty.
C1_OneDownloadNonEmpty ==
    \A g1 \in Req : \A g2 \in Req :
        ( /\ IsGet(g1) /\ IsGet(g2) /\ req[g1].num = req[g2].num
          /\ Ok(g1) /\ Ok(g2) /\ Precedes(g1, g2)
          /\ dl[g1] = 1 /\ resp[g1].transcript # "" )
        => /\ dl[g2] = 0
           /\ resp[g2].transcript = resp[g1].transcript

(***************************************************************************)
(* C9.  Under every interleaving of GET /api/dialogues/:number and POST    *)
(* /api/dialogues/:number/highlights the store holds at most one record    *)
(* per number, and no request ends in a duplicate-key failure.             *)
(***************************************************************************)
\* The store holds at most one record per number.
UniqueNumbers ==
    \A i \in DOMAIN store : \A j \in DOMAIN store :
        store[i].number = store[j].number => i = j

\* C9: one record per number, and no request ends in a duplicate-key failure.
C9_NoDuplicateKey ==
    /\ UniqueNumbers
    /\ \A r \in Req : err[r] # MsgDup

(***************************************************************************)
(* C5.  Two concurrent POST /api/dialogues/N/highlights requests with      *)
(* bodies L1 and L2 (the database answering every call) both get the       *)
(* success acknowledgment, and the record of N ends with the highlights of *)
(* L1 or of L2.                                                            *)
(***************************************************************************)
C5_BothSucceed ==
    \A p1 \in Req : \A p2 \in Req :
        ( /\ IsPost(p1) /\ IsPost(p2) /\ req[p1].num = req[p2].num
          /\ Overlap(p1, p2) /\ Done(p1) /\ Done(p2)
          /\ err[p1] # MsgDb /\ err[p2] # MsgDb
          /\ \A q \in Req \ {p1, p2} : ~(IsPost(q) /\ req[q].num = req[p1].num) )
        => /\ resp[p1].success /\ resp[p2].success
           /\ HasRecord(req[p1].num)
           /\ FindOne(store, req[p1].num)[1].rec.highlights
                 \in { CastHighlights(req[p1].body), CastHighlights(req[p2].body) }

(***************************************************************************)
(* C2.  After a successful POST /api/dialogues/N/highlights with body L, a *)
(* following GET /api/dialogues/N with no other highlight save in between  *)
(* returns highlights equal to exactly L.                                  *)
(***************************************************************************)
\* p is a successful save of highlights, g a later answered read of the same
\* number, and every other save for that number ended before p arrived or
\* arrived after g was answered.
SaveThenRead(p, g) ==
    /\ IsPost(p) /\ IsGet(g) /\ req[p].num = req[g].num
    /\ Done(p) /\ resp[p].success /\ Ok(g) /\ Precedes(p, g)
    /\ \A q \in Req \ {p} :
          (IsPost(q) /\ req[q].num = req[p].num) => (Precedes(q, p) \/ Precedes(g, q))

\* C2: the highlights read back equal exactly the list L that was sent.
C2_RoundTripExact ==
    \A p \in Req : \A g \in Req :
        SaveThenRead(p, g) => resp[g].highlights = req[p].body

\* C2 as amended: the GET returns L's highlights in L's order, each with the
\* fields the client sent and its date filled in when the client sent none;
\* whatever the record held before is gone.
C2_RoundTrip ==
    \A p \in Req : \A g \in Req :
        SaveThenRead(p, g) =>
            /\ Len(resp[g].highlights) = Len(req[p].body)
            /\ \A i \in DOMAIN req[p].body :
                  LET h == req[p].body[i]
                      out == resp[g].highlights[i]
                  IN  /\ out.russian = h.russian
                      /\ out.translation = h.translation
                      /\ out.fullSentence = h.fullSentence
                      /\ out.translatedWord = h.translatedWord
                      /\ out.date = IF h.date = Undef THEN DateNow ELSE h.date

C2_Witness ==
    \E p \in Req : \E g \in Req :
        /\ SaveThenRead(p, g)
        /\ req[p].body = <<hNew>>
        /\ resp[g].transcript # ""
        /\ resp[g].highlights = <<CastHighlight(hNew)>>

(***************************************************************************)
(* C3.  A GET /api/dialogues/N for a number with no record and no          *)
(* transcript file, whose calls to the database and to storage all         *)
(* succeed, is answered 200 with {transcript: "", highlights: []}, and no  *)
(* step of it creates a record for N.                                      *)
(***************************************************************************)
C3_SoftMiss ==
    /\ [](\A g \in Req :
            ( /\ IsGet(g) /\ Done(g) /\ err[g] = ""
              /\ ~HasRecord(req[g].num) /\ ~HasTranscriptFile(req[g].num) )
            => resp[g] = [NoResp EXCEPT !.status = 200])
    /\ [][\A g \in Req :
            ( /\ IsGet(g) /\ Steps(g)
              /\ ~HasRecord(req[g].num) /\ ~HasTranscriptFile(req[g].num) )
            => ~HasRecord(req[g].num)']_vars

C3_Witness ==
    \E g \in Req :
        /\ IsGet(g) /\ Done(g) /\ err[g] = ""
        /\ ~HasRecord(req[g].num) /\ ~HasTranscriptFile(req[g].num)
        /\ resp[g].status = 200 /\ resp[g].transcript = "" /\ resp[g].highlights = <<>>

C6_StorageOnly ==
    \A l \in Req :
        (req[l].kind = "list" /\ Ok(l)) =>
            \A n \in ListedNums(folder) :
                ~HasRecord(n) =>
                    /\ EntriesOf(resp[l].dialogues, n) # {}
                    /\ \A i \in EntriesOf(resp[l].dialogues, n) :
                          /\ resp[l].dialogues[i].label = Label(n)
                          /\ resp[l].dialogues[i].hasHighlights = FALSE

C6_Witness ==
    \E l \in Req :
        /\ req[l].kind = "list" /\ Ok(l)
        /\ ~HasRecord(2) /\ 2 \in ListedNums(folder) /\ HasRecord(1)
        /\ \E i \in DOMAIN resp[l].dialogues :
              /\ resp[l].dialogues[i].number = 2
              /\ resp[l].dialogues[i].label = "Dialogue 2"

(***************************************************************************)
(* C7.  For every N with a persisted title T, GET /api/dialogues reports   *)
(* an entry for N with label T.                                            *)
(***************************************************************************)
\* Request l's Dialogue.find() resolves and the list is sent.
ListAnswered(l) == pc[l] = "dbfind" /\ pc'[l] = "done" /\ resp'[l].status = 200

\* C7: when the list is sent, every record with a title T has an entry
\* whose label is T.
C7_EveryTitleListed ==
    [][\A l \in Req :
         ListAnswered(l) =>
            \A i \in DOMAIN store :
                Truthy(store[i].title) =>
                    \E k \in DOMAIN resp'[l].dialogues :
                        /\ resp'[l].dialogues[k].number = store[i].number
                        /\ resp'[l].dialogues[k].label = store[i].title]_vars

\* C7 as amended: for every N that has a persisted, non-empty title T and
\* appears in the folder listing, the entry for N has label T.
C7_ListedTitle ==
    [][\A l \in Req :
         ListAnswered(l) =>
            \A i \in DOMAIN store :
                (Truthy(store[i].title) /\ store[i].number \in ListedNums(folder)) =>
                    /\ EntriesOf(resp'[l].dialogues, store[i].number) # {}
                    /\ \A k \in EntriesOf(resp'[l].dialogues, store[i].number) :
                          resp'[l].dialogues[k].label = store[i].title]_vars

C7_Witness ==
    \E l \in Req :
        /\ req[l].kind = "list" /\ Ok(l)
        /\ \E k \in DOMAIN resp[l].dialogues :
              resp[l].dialogues[k].number = 2 /\ resp[l].dialogues[k].label = "Intro"

(***************************************************************************)
(* C8.  GET /api/all-highlights returns one entry per highlight of every   *)
(* record, in store order and then array order, each tagged with its       *)
(* record's number; its length is the sum of the highlight counts.         *)
(***************************************************************************)
C8_Flattened ==
    [][\A a \in Req :
         (pc[a] = "all" /\ pc'[a] = "done" /\ resp'[a].status = 200) =>
            LET out == resp'[a].all IN
            /\ Len(out) = SumLens(store, Len(store))
            /\ \A i \in DOMAIN store : \A j \in DOMAIN store[i].highlights :
                  LET e == out[SumLens(store, i - 1) + j] IN
                  /\ e.dialogueNumber = store[i].number
                  /\ e.russian = store[i].highlights[j].russian
                  /\ e.translation = store[i].highlights[j].translation]_vars

C8_Witness ==
    \E a \in Req :
        /\ req[a].kind = "all" /\ Ok(a)
        /\ Len(resp[a].all) >= 3
        /\ \E i \in DOMAIN resp[a].all : resp[a].all[i].dialogueNumber = 1
        /\ \E i \in DOMAIN resp[a].all : resp[a].all[i].dialogueNumber = 2

(***************************************************************************)
(* C10.  No step of a GET /api/dialogues/N changes the highlights of any   *)
(* record, no step of a POST /api/dialogues/N/highlights changes the       *)
(* transcript text of any record, and neither changes a record of another  *)
(* number, however the two interleave.                                     *)
(***************************************************************************)
C10_Frame ==
    [][\A r \in Req :
         Steps(r) =>
            /\ Len(store') >= Len(store)
            /\ \A i \in DOMAIN store :
                  /\ store'[i].number = store[i].number
                  /\ IsGet(r) => store'[i].highlights = store[i].highlights
                  /\ IsPost(r) => store'[i].transcriptText = store[i].transcriptText
                  /\ store[i].number # req[r].num => store'[i] = store[i]]_vars

C10_Witness ==
    \E g \in Req : \E p \in Req :
        /\ IsGet(g) /\ IsPost(p) /\ req[g].num = req[p].num
        /\ Overlap(g, p) /\ Ok(g) /\ Ok(p) /\ dl[g] = 1
        /\ req[p].body # <<>>
        /\ resp[g].highlights # CastHighlights(req[p].body)
        /\ \E i \in DOMAIN store :
              /\ store[i].number = req[g].num
              /\ Truthy(store[i].transcriptText)
              /\ store[i].highlights = CastHighlights(req[p].body)

====
